---------------------------- MODULE Spec2Model ----------------------------
(***************************************************************************)
(* A model of the council-assistant ingestion notebooks:                   *)
(*   - notebooks/0B_Scraping_KCC_Meetings.ipynb: the meeting scraper       *)
(*     (load_seen_ids, scrape_meeting_metadata, run_scrape_batch) and the  *)
(*     agenda chunk export cell;                                           *)
(*   - notebooks/test.ipynb: the meetings-metadata build;                  *)
(*   - notebooks/0Z_Scraping_KentOnline_news_draft.ipynb: the news scraper;*)
(*   - the manifest update, the embedding builder and the document         *)
(*     registry, which the README and the project overview describe.       *)
(* Python strings are sequences of one-character strings, dicts are        *)
(* records, None is the record [none |-> TRUE].                            *)
(***************************************************************************)
EXTENDS Integers, Sequences, FiniteSets, TLC

(***************************************************************************)
(* Bounds of the model.                                                    *)
(***************************************************************************)
NumIds == 2
MaxRuns == 2
MaxInitLines == 1

\* the meeting ids a run may cover (MIDS = range(8000, 9000) in the notebook;
\* the model's ids straddle a change in the number of digits)
Ids == 9 .. (8 + NumIds)
Procs == {"A", "B"}

None == [none |-> TRUE]
IsNone(v) == "none" \in DOMAIN v

(***************************************************************************)
(* str(mid) for a non-negative int: its decimal digits, as characters.     *)
(***************************************************************************)
Digit(d) == CASE d = 0 -> "0" [] d = 1 -> "1" [] d = 2 -> "2" [] d = 3 -> "3"
              [] d = 4 -> "4" [] d = 5 -> "5" [] d = 6 -> "6" [] d = 7 -> "7"
              [] d = 8 -> "8" [] d = 9 -> "9"

RECURSIVE str(_)
str(n) == IF n < 10 THEN <<Digit(n)>> ELSE str(n \div 10) \o <<Digit(n % 10)>>

IsPrefix(s, t) == Len(s) <= Len(t) /\ SubSeq(t, 1, Len(s)) = s

(***************************************************************************)
(* Characters, str.upper() and the regex class \w on the modelled alphabet.*)
(***************************************************************************)
Lower == <<"a","b","c","d","e","f","g","h","i","j","k","l","m",
           "n","o","p","q","r","s","t","u","v","w","x","y","z">>
Upper == <<"A","B","C","D","E","F","G","H","I","J","K","L","M",
           "N","O","P","Q","R","S","T","U","V","W","X","Y","Z">>
Digits == {"0","1","2","3","4","5","6","7","8","9"}
Range(f) == {f[i] : i \in DOMAIN f}

upper_char(c) == IF \E i \in 1..26 : Lower[i] = c
                 THEN Upper[CHOOSE i \in 1..26 : Lower[i] = c]
                 ELSE c
upper(s) == [i \in 1..Len(s) |-> upper_char(s[i])]

IsWordChar(c) == c \in Range(Lower) \/ c \in Range(Upper) \/ c \in Digits \/ c = "_"

(***************************************************************************)
(* Status detection: re.search(r'\b(CANCELLED|WITHDRAWN|POSTPONED|MOVED|   *)
(* NEW)\b', page_title.upper()): the leftmost whole-word keyword.          *)
(***************************************************************************)
StatusKeywords == << <<"C","A","N","C","E","L","L","E","D">>,
                     <<"W","I","T","H","D","R","A","W","N">>,
                     <<"P","O","S","T","P","O","N","E","D">>,
                     <<"M","O","V","E","D">>,
                     <<"N","E","W">> >>

\* \b at the gap before position i (1 <= i <= Len(s)+1)
WordBoundary(s, i) ==
  LET before == i > 1 /\ IsWordChar(s[i-1])
      after  == i <= Len(s) /\ IsWordChar(s[i])
  IN  before # after

MatchAt(s, kw, i) ==
  /\ i + Len(kw) - 1 <= Len(s)
  /\ SubSeq(s, i, i + Len(kw) - 1) = kw
  /\ WordBoundary(s, i)
  /\ WordBoundary(s, i + Len(kw))

StatusMatches(s) ==
  {<<i, k>> \in (1..Len(s)) \X (1..Len(StatusKeywords)) : MatchAt(s, StatusKeywords[k], i)}

lower_char(c) == IF \E i \in 1..26 : Upper[i] = c
                 THEN Lower[CHOOSE i \in 1..26 : Upper[i] = c]
                 ELSE c
lower(s) == [i \in 1..Len(s) |-> lower_char(s[i])]

scheduled == <<"s","c","h","e","d","u","l","e","d">>

\* str.strip(): leading and trailing whitespace removed
IsSpace(c) == c \in {" ", "\n", "\t"}
RECURSIVE lstrip(_)
lstrip(s) == IF s # <<>> /\ IsSpace(Head(s)) THEN lstrip(Tail(s)) ELSE s
RECURSIVE rstrip(_)
rstrip(s) == IF s # <<>> /\ IsSpace(s[Len(s)]) THEN rstrip(SubSeq(s, 1, Len(s) - 1)) ELSE s
strip(s) == rstrip(lstrip(s))

\* variant: the title is matched as it is, without .upper()
meeting_status_case_sensitive(title_text) ==
  LET ms == StatusMatches(strip(title_text))
  IN  IF ms = {} THEN scheduled
      ELSE LET first == CHOOSE m \in ms : \A n \in ms : m[1] <= n[1]
           IN  lower(StatusKeywords[first[2]])

\* title_text is soup.find("title").text
meeting_status(title_text) ==
  LET u == upper(strip(title_text))
      ms == StatusMatches(u)
  IN  IF ms = {} THEN scheduled
      ELSE LET first == CHOOSE m \in ms : \A n \in ms : m[1] <= n[1]
           IN  lower(StatusKeywords[first[2]])

(***************************************************************************)
(* Pages and HTTP responses.                                               *)
(***************************************************************************)
Some(x) == [some |-> x]

\* pages the scraper specification fetches: one ordinary page, and one
\* without a <title> element (soup.find("title") is None)
\* heading: the h1/h2 text and whether the heading regex matches it;
\* meeting_date and meeting_time are what strptime(...).strftime(...) gives for
\* the matched groups, "ValueError" when strptime raises
NoHeading == [text |-> "", matched |-> FALSE, committee_name |-> "", meeting_date |-> "", meeting_time |-> ""]
CabinetHeading == [text |-> "Cabinet - Monday, 8th January, 2024 10.00 am", matched |-> TRUE,
                   committee_name |-> "Cabinet", meeting_date |-> "2024-01-08", meeting_time |-> "10:00"]
NoPage == [has_title |-> FALSE, title |-> <<>>, heading |-> NoHeading, agenda_items |-> <<>>]
TitledPage(title) == [has_title |-> TRUE, title |-> title, heading |-> CabinetHeading, agenda_items |-> <<>>]
ScrapePages == { TitledPage(<<"N","e","w"," ","A">>), NoPage }

Responses ==
  {[raises |-> TRUE, status_code |-> 0, page |-> NoPage]}          \* timeout
    \cup {[raises |-> FALSE, status_code |-> 404, page |-> NoPage]}
    \cup {[raises |-> FALSE, status_code |-> 200, page |-> pg] : pg \in ScrapePages}

ErrorRecord(mid, e) == [web_meeting_code |-> str(mid), error |-> e]

\* variant: the committee name is cut from the heading before the regex is
\* tried, so it is kept when the heading does not match
MeetingRecord_name_first(mid, page) ==
  [web_meeting_code |-> str(mid),
   meeting_title    |-> page.heading.text,
   meeting_status   |-> meeting_status(page.title),
   committee_name   |-> Some(page.heading.committee_name),
   meeting_date     |-> IF page.heading.matched THEN Some(page.heading.meeting_date) ELSE None,
   meeting_time     |-> IF page.heading.matched THEN Some(page.heading.meeting_time) ELSE None,
   agenda_items     |-> page.agenda_items]

MeetingRecord(mid, page) ==
  [web_meeting_code |-> str(mid),
   meeting_title    |-> page.heading.text,
   meeting_status   |-> meeting_status(page.title),
   committee_name   |-> IF page.heading.matched THEN Some(page.heading.committee_name) ELSE None,
   meeting_date     |-> IF page.heading.matched THEN Some(page.heading.meeting_date) ELSE None,
   meeting_time     |-> IF page.heading.matched THEN Some(page.heading.meeting_time) ELSE None,
   agenda_items     |-> page.agenda_items]

(***************************************************************************)
(* scrape_meeting_metadata(mid, cid): the whole body is inside             *)
(* try/except Exception, so every exception becomes an error record; a     *)
(* non-200 response returns None.                                          *)
(***************************************************************************)
\* variant: the except branch returns None instead of an error record
scrape_meeting_metadata_except_none(mid, res) ==
  IF res.raises THEN None
  ELSE IF res.status_code # 200 THEN None
  ELSE IF ~res.page.has_title THEN None
  ELSE IF res.page.heading.matched
          /\ "ValueError" \in {res.page.heading.meeting_date, res.page.heading.meeting_time} THEN None
  ELSE MeetingRecord(mid, res.page)

scrape_meeting_metadata(mid, res) ==
  IF res.raises THEN ErrorRecord(mid, "timeout")
  ELSE IF res.status_code # 200 THEN None
  ELSE IF ~res.page.has_title THEN ErrorRecord(mid, "AttributeError")
  ELSE IF res.page.heading.matched
          /\ "ValueError" \in {res.page.heading.meeting_date, res.page.heading.meeting_time}
       THEN ErrorRecord(mid, "ValueError")
  ELSE MeetingRecord(mid, res.page)

(***************************************************************************)
(* The output file: a sequence of lines. A line is [intact, obj]:          *)
(* json.loads(line) raises when the line is not intact; obj is the dict.   *)
(***************************************************************************)
Line(obj) == [intact |-> TRUE, obj |-> obj]

\* json.dumps(data) + "\n"
json_dumps(data) == Line(data)

\* variant: error records are not counted as seen
load_seen_ids_skip_errors(output_file) ==
  {output_file[i].obj.web_meeting_code :
     i \in {j \in 1..Len(output_file) :
               /\ output_file[j].intact
               /\ "web_meeting_code" \in DOMAIN output_file[j].obj
               /\ "error" \notin DOMAIN output_file[j].obj}}

\* variant: a line json.loads rejects is searched for its web_meeting_code
load_seen_ids_salvage(output_file) ==
  {output_file[i].obj.web_meeting_code :
     i \in {j \in 1..Len(output_file) : "web_meeting_code" \in DOMAIN output_file[j].obj}}

load_seen_ids(output_file) ==
  {output_file[i].obj.web_meeting_code :
     i \in {j \in 1..Len(output_file) :
               /\ output_file[j].intact
               /\ "web_meeting_code" \in DOMAIN output_file[j].obj}}

\* variant: "mid in seen_ids", an int looked up in a set of strings
is_seen_int(mid, seen) == FALSE

\* str(mid) in seen_ids
is_seen(mid, seen) == str(mid) \in seen

\* variant: the write is not guarded by "if data:"
truthy_always(d) == TRUE

\* "if data:": None is falsy, a non-empty dict is truthy
truthy(d) == ~IsNone(d)

\* variant: open(output_path, "w") truncates the file
open_write(content) == <<>>

\* open(output_path, "a"): the existing content is kept
open_append(content) == content

\* range(lo, hi) as the sequence the for loop walks
range(lo, hi) == [i \in 1..(IF hi > lo THEN hi - lo ELSE 0) |-> lo + i - 1]

VARIABLES
  file,       \* the lines of the output file
  pc,         \* per run: "idle", "loop" (inside the for loop), "done"
  seen_ids,   \* per run: the set load_seen_ids returned
  todo,       \* per run: the ids the for loop has still to visit
  data,       \* per run: what the last scrape_meeting_metadata call returned
  called,     \* per run: the mid of the last scrape_meeting_metadata call (0: none yet)
  file0,      \* history: the file when the run started
  mids,       \* history: the ids of the run
  fetches,    \* history: per id, the HTTP fetches of the run
  appends,    \* history: per id, the lines the run appended
  last_res,   \* history: per id, the last response ("none" before any)
  sleeps,     \* history: the sleeps of the run
  slept,      \* history: the duration of the last sleep of the run, in tenths of a second (0: none yet)
  runs,       \* started runs
  page,       \* status detection: the page a single scrape_meeting_metadata call gets
  scraped,    \* status detection: what that call returned (None before it)
  meetings,   \* chunk export: the records of meetings_metadata.jsonl
  chunks,     \* chunk export: the lines of chunks.jsonl
  exported,   \* history: the input of the last export
  prev_chunks,   \* history: the lines the export before the last wrote
  prev_exported, \* history: the input of the export before the last
  exports,    \* runs of the chunk export cell
  tree,       \* metadata build: the entries under BASE_DIR/<committee>/
  registry,   \* metadata build: the lines of data/events/meetings_metadata.jsonl
  prev_registry, \* history: the lines before the last build
  gone,       \* history: the meeting ids the last build loaded and found no folder for
  builds,     \* runs of the metadata build cell
  store,      \* news scraper: the articles of the news store
  prev_store, \* history: the store before the last run
  section,    \* history: the hrefs the section page of the last run listed
  store_writes, \* history: how often the store file was opened for writing
  news_runs,  \* runs of the news scraper
  generated,  \* embedding: per chunk id, the text stage 1 last generated (None: no chunk)
  manifest,   \* embedding: per chunk id, the manifest entry (None: no entry)
  index,      \* embedding: the vectors of the vector index
  metadata,   \* embedding: the lines of the metadata registry
  since,      \* history: per chunk id, the embedding runs since its entry's text_hash was set
  embed_runs, \* runs of the embedding builder
  placed,     \* document registry: every PDF file the scraper has saved
  originals,  \* document registry: the files under the meeting folders
  duplicates, \* document registry: the files in the duplicates area
  documents,  \* document registry: the entries in the order the files were discovered
  doc_runs,   \* runs of the document-id assignment and of the text deduplication
  available,  \* batch summarisation: the documents with full text and metadata
  pdf_manifest,   \* batch summarisation: per document, batch_status and summarised
  batch_requests, \* batch summarisation: the documents of batch_requests.jsonl
  jobs,       \* batch summarisation: the request files uploaded to the batch API
  batch_results,  \* batch summarisation: the documents of the downloaded batch_results.jsonl
  summaries,  \* batch summarisation: the lines of summaries.jsonl
  result_runs,    \* history: per document, the results-processing runs that held a result for it
  batch_steps \* runs of the three batch scripts

scraperVars == <<file, pc, seen_ids, todo, data, called, file0, mids, fetches, appends, last_res, sleeps, slept, runs>>
statusVars == <<page, scraped>>
chunkVars == <<meetings, chunks, exported, prev_chunks, prev_exported, exports>>
buildVars == <<tree, registry, prev_registry, gone, builds>>
newsVars == <<store, prev_store, section, store_writes, news_runs>>
embedVars == <<generated, manifest, index, metadata, since, embed_runs>>
docVars == <<placed, originals, duplicates, documents, doc_runs>>
batchVars == <<available, pdf_manifest, batch_requests, jobs, batch_results, summaries, result_runs, batch_steps>>
restVars == <<buildVars, newsVars, embedVars, docVars, batchVars>>
vars == <<scraperVars, statusVars, chunkVars, restVars>>

NoRes == [raises |-> FALSE, status_code |-> 0, page |-> NoPage]
Zero == [i \in Ids |-> 0]

InitRun ==
  /\ pc = [p \in Procs |-> "idle"]
  /\ seen_ids = [p \in Procs |-> {}]
  /\ todo = [p \in Procs |-> <<>>]
  /\ data = [p \in Procs |-> None]
  /\ file0 = [p \in Procs |-> <<>>]
  /\ mids = [p \in Procs |-> {}]
  /\ fetches = [p \in Procs |-> Zero]
  /\ appends = [p \in Procs |-> Zero]
  /\ last_res = [p \in Procs |-> [i \in Ids |-> NoRes]]
  /\ sleeps = [p \in Procs |-> 0]
  /\ slept = [p \in Procs |-> 0]
  /\ called = [p \in Procs |-> 0]
  /\ runs = 0

\* no single page scraped
InitStatusIdle ==
  /\ page = NoPage
  /\ scraped = None

\* the chunk export cell not run, no input
InitChunksIdle ==
  /\ meetings = <<>>
  /\ chunks = <<>>
  /\ exported = <<>>
  /\ prev_chunks = <<>>
  /\ prev_exported = <<>>
  /\ exports = 0

\* the metadata build cell not run, no folders
InitBuildIdle ==
  /\ tree = {}
  /\ registry = <<>>
  /\ prev_registry = <<>>
  /\ gone = {}
  /\ builds = 0

\* the news scraper not run, no store
InitNewsIdle ==
  /\ store = <<>>
  /\ prev_store = <<>>
  /\ store_writes = 0
  /\ section = <<>>
  /\ news_runs = 0

\* the chunk ids of the manifest
ChunkKeys == {"c1", "c2"}

\* the embedding pipeline not run: no chunks, an empty manifest and index
InitEmbedIdle ==
  /\ generated = [c \in ChunkKeys |-> None]
  /\ manifest = [c \in ChunkKeys |-> None]
  /\ index = <<>>
  /\ metadata = <<>>
  /\ since = [c \in ChunkKeys |-> [runs |-> 0, unready |-> 0, vectors |-> 0, lines |-> 0]]
  /\ embed_runs = 0

\* no PDF saved, an empty document registry
InitDocsIdle ==
  /\ placed = {}
  /\ originals = {}
  /\ duplicates = {}
  /\ documents = <<>>
  /\ doc_runs = 0

\* the documents of the PDF manifest
BatchDocs == {"d1", "d2"}

\* no document has full text, nothing submitted
InitBatchIdle ==
  /\ available = {}
  /\ pdf_manifest = [d \in BatchDocs |-> [batch_status |-> "none", summarised |-> FALSE]]
  /\ batch_requests = {}
  /\ jobs = {}
  /\ batch_results = {}
  /\ summaries = <<>>
  /\ result_runs = [d \in BatchDocs |-> 0]
  /\ batch_steps = 0

InitRestIdle == InitBuildIdle /\ InitNewsIdle /\ InitEmbedIdle /\ InitDocsIdle /\ InitBatchIdle

\* the output file does not exist yet
Init ==
  /\ file = <<>>
  /\ InitRun
  /\ InitStatusIdle
  /\ InitChunksIdle
  /\ InitRestIdle

\* lines an output file may hold before a run: records of earlier runs, a line
\* cut short by an interrupted run, a JSON line without web_meeting_code
InitLines ==
  UNION {{Line(MeetingRecord(id, CHOOSE pg \in ScrapePages : pg.has_title)),
          Line(ErrorRecord(id, "timeout")),
          [intact |-> FALSE, obj |-> ErrorRecord(id, "timeout")]} : id \in Ids}
    \cup {Line([error |-> "timeout"])}

RECURSIVE SeqsUpTo(_, _)
SeqsUpTo(S, n) ==
  IF n = 0 THEN {<<>>}
  ELSE LET shorter == SeqsUpTo(S, n - 1)
       IN  shorter \cup {Append(q, x) : q \in shorter, x \in S}

\* any output file of at most MaxInitLines lines
InitAny ==
  /\ file \in SeqsUpTo(InitLines, MaxInitLines)
  /\ InitRun
  /\ InitStatusIdle
  /\ InitChunksIdle
  /\ InitRestIdle

\* run_scrape_batch, up to the for loop: load the seen ids, open for append
StartRun(p, lo, hi) ==
  /\ pc[p] # "loop"
  /\ runs < MaxRuns
  /\ runs' = runs + 1
  /\ seen_ids' = [seen_ids EXCEPT ![p] = load_seen_ids(file)]
  /\ file' = open_append(file)
  /\ todo' = [todo EXCEPT ![p] = range(lo, hi)]
  /\ pc' = [pc EXCEPT ![p] = "loop"]
  /\ data' = [data EXCEPT ![p] = None]
  /\ called' = [called EXCEPT ![p] = 0]
  /\ file0' = [file0 EXCEPT ![p] = file]
  /\ mids' = [mids EXCEPT ![p] = Range(range(lo, hi))]
  /\ fetches' = [fetches EXCEPT ![p] = Zero]
  /\ appends' = [appends EXCEPT ![p] = Zero]
  /\ last_res' = [last_res EXCEPT ![p] = [i \in Ids |-> NoRes]]
  /\ sleeps' = [sleeps EXCEPT ![p] = 0]
  /\ slept' = [slept EXCEPT ![p] = 0]
  /\ UNCHANGED <<statusVars, chunkVars, restVars>>

\* one iteration of the for loop on an id that is in seen_ids: continue
SkipSeen(p) ==
  /\ pc[p] = "loop"
  /\ todo[p] # <<>>
  /\ is_seen(Head(todo[p]), seen_ids[p])
  /\ todo' = [todo EXCEPT ![p] = Tail(todo[p])]
  /\ UNCHANGED <<file, pc, seen_ids, data, called, file0, mids, fetches, appends, last_res, sleeps, slept, runs>>
  /\ UNCHANGED <<statusVars, chunkVars, restVars>>

RaisesException(res) == res.raises \/ (res.status_code = 200 /\ ~res.page.has_title)
Non200(res) == ~res.raises /\ res.status_code # 200
Failure(res) == RaisesException(res) \/ Non200(res)

\* variant: a failed fetch leaves the for loop (break)
Scrape_break(p, res) ==
  /\ pc[p] = "loop"
  /\ todo[p] # <<>>
  /\ ~is_seen(Head(todo[p]), seen_ids[p])
  /\ LET mid == Head(todo[p])
         d   == scrape_meeting_metadata(mid, res)
     IN  /\ data' = [data EXCEPT ![p] = d]
         /\ called' = [called EXCEPT ![p] = mid]
         /\ file' = IF truthy(d) THEN Append(file, json_dumps(d)) ELSE file
         /\ appends' = [appends EXCEPT ![p][mid] = @ + (IF truthy(d) THEN 1 ELSE 0)]
         /\ fetches' = [fetches EXCEPT ![p][mid] = @ + 1]
         /\ last_res' = [last_res EXCEPT ![p][mid] = res]
  /\ sleeps' = [sleeps EXCEPT ![p] = @ + 1]
  /\ \E seconds10 \in {15, 35} : slept' = [slept EXCEPT ![p] = seconds10]
  /\ todo' = [todo EXCEPT ![p] = IF Failure(res) THEN <<>> ELSE Tail(todo[p])]
  /\ UNCHANGED <<pc, seen_ids, file0, mids, runs>>
  /\ UNCHANGED <<statusVars, chunkVars, restVars>>

\* variant: the sleep sits inside "if data:", so a failed fetch is not followed
\* by a sleep
Scrape_sleep_if_data(p, res) ==
  /\ pc[p] = "loop"
  /\ todo[p] # <<>>
  /\ ~is_seen(Head(todo[p]), seen_ids[p])
  /\ LET mid == Head(todo[p])
         d   == scrape_meeting_metadata(mid, res)
     IN  /\ data' = [data EXCEPT ![p] = d]
         /\ called' = [called EXCEPT ![p] = mid]
         /\ file' = IF truthy(d) THEN Append(file, json_dumps(d)) ELSE file
         /\ appends' = [appends EXCEPT ![p][mid] = @ + (IF truthy(d) THEN 1 ELSE 0)]
         /\ fetches' = [fetches EXCEPT ![p][mid] = @ + 1]
         /\ last_res' = [last_res EXCEPT ![p][mid] = res]
         /\ IF truthy(d)
              THEN /\ sleeps' = [sleeps EXCEPT ![p] = @ + 1]
                   /\ \E seconds10 \in {15, 35} : slept' = [slept EXCEPT ![p] = seconds10]
              ELSE UNCHANGED <<sleeps, slept>>
  /\ todo' = [todo EXCEPT ![p] = Tail(todo[p])]
  /\ UNCHANGED <<pc, seen_ids, file0, mids, runs>>
  /\ UNCHANGED <<statusVars, chunkVars, restVars>>

\* variant: the write is guarded by a fresh look at the file, so a record
\* appended by another run since the load of seen_ids is not doubled
Scrape_recheck(p, res) ==
  /\ pc[p] = "loop"
  /\ todo[p] # <<>>
  /\ ~is_seen(Head(todo[p]), seen_ids[p])
  /\ LET mid == Head(todo[p])
         d   == scrape_meeting_metadata(mid, res)
         w   == truthy(d) /\ ~is_seen(mid, load_seen_ids(file))
     IN  /\ data' = [data EXCEPT ![p] = d]
         /\ called' = [called EXCEPT ![p] = mid]
         /\ file' = IF w THEN Append(file, json_dumps(d)) ELSE file
         /\ appends' = [appends EXCEPT ![p][mid] = @ + (IF w THEN 1 ELSE 0)]
         /\ fetches' = [fetches EXCEPT ![p][mid] = @ + 1]
         /\ last_res' = [last_res EXCEPT ![p][mid] = res]
  /\ sleeps' = [sleeps EXCEPT ![p] = @ + 1]
  /\ \E seconds10 \in {15, 35} : slept' = [slept EXCEPT ![p] = seconds10]
  /\ todo' = [todo EXCEPT ![p] = Tail(todo[p])]
  /\ UNCHANGED <<pc, seen_ids, file0, mids, runs>>
  /\ UNCHANGED <<statusVars, chunkVars, restVars>>

\* one iteration of the for loop on an unseen id: fetch, write if data, sleep;
\* time.sleep(random.uniform(*delay)) with delay = (1.5, 3.5): the model draws
\* one of the two ends of the range, in tenths of a second
Scrape(p, res) ==
  /\ pc[p] = "loop"
  /\ todo[p] # <<>>
  /\ ~is_seen(Head(todo[p]), seen_ids[p])
  /\ LET mid == Head(todo[p])
         d   == scrape_meeting_metadata(mid, res)
     IN  /\ data' = [data EXCEPT ![p] = d]
         /\ called' = [called EXCEPT ![p] = mid]
         /\ file' = IF truthy(d) THEN Append(file, json_dumps(d)) ELSE file
         /\ appends' = [appends EXCEPT ![p][mid] = @ + (IF truthy(d) THEN 1 ELSE 0)]
         /\ fetches' = [fetches EXCEPT ![p][mid] = @ + 1]
         /\ last_res' = [last_res EXCEPT ![p][mid] = res]
  /\ sleeps' = [sleeps EXCEPT ![p] = @ + 1]
  /\ \E seconds10 \in {15, 35} : slept' = [slept EXCEPT ![p] = seconds10]
  /\ todo' = [todo EXCEPT ![p] = Tail(todo[p])]
  /\ UNCHANGED <<pc, seen_ids, file0, mids, runs>>
  /\ UNCHANGED <<statusVars, chunkVars, restVars>>

\* the for loop is exhausted: the with block closes the file
EndRun(p) ==
  /\ pc[p] = "loop"
  /\ todo[p] = <<>>
  /\ pc' = [pc EXCEPT ![p] = "done"]
  /\ UNCHANGED <<file, seen_ids, todo, data, called, file0, mids, fetches, appends, last_res, sleeps, slept, runs>>
  /\ UNCHANGED <<statusVars, chunkVars, restVars>>

Bounds == {<<lo, hi>> \in Ids \X (Ids \cup {8 + NumIds + 1}) : lo < hi}

\* runs one after another, in one kernel: a run starts only when no run is in
\* its loop
StartSequential ==
  \E b \in Bounds :
     /\ \A q \in Procs : pc[q] # "loop"
     /\ StartRun("A", b[1], b[2])

Step == \E p \in Procs : SkipSeen(p) \/ (\E res \in Responses : Scrape(p, res)) \/ EndRun(p)

Next == StartSequential \/ Step

Spec == Init /\ [][Next]_vars

\* the same runs, on an output file that already exists
SpecAny == InitAny /\ [][Next]_vars

\* the for loop goes on while it has ids to visit
LiveSpec == Init /\ [][Next]_vars /\ WF_vars(Step)

(***************************************************************************)
(* Properties of the scraper.                                              *)
(***************************************************************************)
HasCode(line) == line.intact /\ "web_meeting_code" \in DOMAIN line.obj
HasRecordFor(f, id) == \E i \in 1..Len(f) : HasCode(f[i]) /\ f[i].obj.web_meeting_code = str(id)
IsErrorRecord(d, mid) == DOMAIN d = {"web_meeting_code", "error"} /\ d.web_meeting_code = str(mid)
IsMeetingRecord(d, mid) ==
  /\ DOMAIN d = {"web_meeting_code", "meeting_title", "meeting_status", "committee_name",
                 "meeting_date", "meeting_time", "agenda_items"}
  /\ d.web_meeting_code = str(mid)
Visited(p) == mids[p] \ Range(todo[p])

\* C1: an id that has a parseable record with web_meeting_code = str(id) in the
\* file at the start of a run is neither fetched nor appended by that run.
C1_Resumable ==
  \A p \in Procs : pc[p] # "idle" =>
    \A id \in Ids : HasRecordFor(file0[p], id) => fetches[p][id] = 0 /\ appends[p][id] = 0

C1_Witness ==
  \E p \in Procs : pc[p] = "done" /\ \E id \in mids[p] :
     /\ HasRecordFor(file0[p], id)
     /\ \E other \in mids[p] : fetches[p][other] = 1

\* C2: from an empty file, after any runs one after another, over overlapping
\* ranges and with any fetch outcomes, no two lines carry the same web_meeting_code.
C2_OneLinePerCode ==
  \A i, j \in 1..Len(file) :
     (i # j /\ HasCode(file[i]) /\ HasCode(file[j]))
        => file[i].obj.web_meeting_code # file[j].obj.web_meeting_code

C2_Witness ==
  \E p \in Procs : pc[p] = "done" /\ runs >= 2 /\ \E a, b \in mids[p] :
     /\ HasRecordFor(file0[p], a) /\ fetches[p][a] = 0
     /\ ~HasRecordFor(file0[p], b) /\ appends[p][b] = 1

\* C3: the lines of the file before a run are a prefix of its lines during and
\* after the run: nothing is modified, removed or reordered.
C3_AppendOnly ==
  \A p \in Procs : pc[p] # "idle" => IsPrefix(file0[p], file)

C3_Witness ==
  \E p \in Procs : pc[p] = "done" /\ file0[p] # <<>> /\ Len(file) > Len(file0[p])
       /\ \E id \in Ids : Failure(last_res[p][id]) /\ fetches[p][id] = 1

\* C4 as stated: every failure (non-200, timeout, parse exception) returns an
\* error record, and a success returns a meeting record with web_meeting_code = str(id).
C4_Original ==
  \A p \in Procs : called[p] # 0 =>
    IF Failure(last_res[p][called[p]])
    THEN IsErrorRecord(data[p], called[p])
    ELSE IsMeetingRecord(data[p], called[p])

\* C4 as amended: a timeout or an exception while parsing returns an error
\* record {web_meeting_code, error}; a non-200 response returns None; a success
\* returns a meeting record with web_meeting_code = str(id).
C4_Amended ==
  \A p \in Procs : called[p] # 0 =>
    LET res == last_res[p][called[p]]
    IN  /\ RaisesException(res) => IsErrorRecord(data[p], called[p])
        /\ Non200(res) => IsNone(data[p])
        /\ ~Failure(res) => IsMeetingRecord(data[p], called[p])

C4_Witness ==
  \E p \in Procs : called[p] # 0 /\ Non200(last_res[p][called[p]]) /\ IsNone(data[p])
     /\ \E id \in Ids : id # called[p] /\ RaisesException(last_res[p][id]) /\ appends[p][id] = 1

\* C5 as stated: a finished run has appended exactly one line for every id of
\* its range that was not seen, whatever the fetch outcome.
C5_Original ==
  \A p \in Procs : pc[p] = "done" =>
    \A id \in mids[p] : ~is_seen(id, seen_ids[p]) => appends[p][id] = 1

\* C5 as amended: a finished run has appended exactly one line for every unseen
\* id whose fetch returned 200 or raised (timeout, parse exception), and no line
\* for an unseen id whose fetch returned a non-200 response.
C5_Amended ==
  \A p \in Procs : pc[p] = "done" =>
    \A id \in mids[p] : ~is_seen(id, seen_ids[p]) =>
       appends[p][id] = (IF Non200(last_res[p][id]) THEN 0 ELSE 1)

C5_Witness ==
  \E p \in Procs : pc[p] = "done" /\ \E a, b \in mids[p] :
     /\ Non200(last_res[p][a]) /\ appends[p][a] = 0 /\ fetches[p][a] = 1
     /\ RaisesException(last_res[p][b]) /\ appends[p][b] = 1

\* the ids the loop has passed were each skipped as seen or fetched exactly
\* once, and the ids it has not reached were not fetched
LoopProgress(p) ==
  /\ \A id \in Visited(p) : fetches[p][id] = (IF is_seen(id, seen_ids[p]) THEN 0 ELSE 1)
  /\ \A id \in Ids \ Visited(p) : fetches[p][id] = 0

\* C6: a failure on one id does not stop the run: every id of the range is
\* skipped as seen or attempted exactly once, and the run reaches its end.
C6_FailureDoesNotStop ==
  /\ [](\A p \in Procs : pc[p] # "idle" => LoopProgress(p))
  /\ \A p \in Procs : (pc[p] = "loop") ~> (pc[p] = "done" /\ Visited(p) = mids[p])

C6_Witness ==
  \E p \in Procs : pc[p] = "done" /\ \E a, b \in mids[p] :
     a < b /\ Failure(last_res[p][a]) /\ fetches[p][a] = 1 /\ fetches[p][b] = 1

(***************************************************************************)
(* Status detection on its own: one scrape_meeting_metadata call on a page *)
(* whose title is put together from at most MaxAtoms pieces.               *)
(***************************************************************************)
MaxAtoms == 2

TitleAtoms == { <<"N","e","w">>, <<"M","O","V","E","D">>,
                <<"c","a","n","c","e","l","l","e","d">>,
                <<"W","i","t","h","d","r","a","w","n">>,
                <<"p","o","s","t","p","o","n","e","d">>,
                <<"r","e">>, <<"s">>, <<" ">>, <<"_">>, <<"-">>,
                <<"A","g","e","n","d","a">> }

RECURSIVE Concats(_, _)
Concats(S, n) ==
  IF n = 0 THEN {<<>>}
  ELSE LET shorter == Concats(S, n - 1)
       IN  shorter \cup {q \o x : q \in shorter, x \in S}

Titles == Concats(TitleAtoms, MaxAtoms)

InitStatus ==
  /\ file = <<>>
  /\ InitRun
  /\ InitChunksIdle
  /\ page \in {TitledPage(t) : t \in Titles}
  /\ scraped = None
  /\ InitRestIdle

\* test_result = scrape_meeting_metadata(mid=9502, cid="144"), the page answering 200
ScrapeOne ==
  /\ IsNone(scraped)
  /\ \E mid \in Ids :
       scraped' = scrape_meeting_metadata(mid, [raises |-> FALSE, status_code |-> 200, page |-> page])
  /\ UNCHANGED <<page, scraperVars, chunkVars, restVars>>

SpecStatus == InitStatus /\ [][ScrapeOne]_vars

\* the maximal runs of word characters of s
WholeWords(s) ==
  {<<i, SubSeq(s, i, j)>> : <<i, j>> \in
     {<<a, b>> \in (1..Len(s)) \X (1..Len(s)) :
        /\ a <= b
        /\ \A k \in a..b : IsWordChar(s[k])
        /\ (a = 1 \/ ~IsWordChar(s[a-1]))
        /\ (b = Len(s) \/ ~IsWordChar(s[b+1]))}}

Contains(s, kw) == \E i \in 1..Len(s) : i + Len(kw) - 1 <= Len(s) /\ SubSeq(s, i, i + Len(kw) - 1) = kw
Keywords == Range(StatusKeywords)
Statuses == {scheduled} \cup {lower(kw) : kw \in Keywords}

MaxItems == 2
MaxExports == 2

\* dict.get(key, default)
Get(r, key, default) == IF key \in DOMAIN r THEN r[key] ELSE default

\* len(item_text.split())
word_count_of(s) ==
  Cardinality({i \in 1..Len(s) : ~IsSpace(s[i]) /\ (i = 1 \/ IsSpace(s[i-1]))})

\* hashlib.md5(item_title.encode()).hexdigest()[:6], for the titles of the model
md5_hex6(title) ==
  CASE title = <<"A">> -> <<"7","f","c","5","6","2">>
    [] title = <<"B">> -> <<"9","d","5","e","d","6">>
    [] title = <<>>    -> <<"d","4","1","d","8","c">>
    [] title = <<"A","p","o","l","o","g","i","e","s">> -> <<"2","a","1","4","5","8">>

\* variant: enumerate(agenda_items, start=1)
base_id_from_one(item_number, idx) ==
  IF item_number # <<>> THEN item_number ELSE <<"i","t","e","m">> \o str(idx + 1)

\* base_id = item_number if item_number else f"item{idx}"
base_id(item_number, idx) ==
  IF item_number # <<>> THEN item_number ELSE <<"i","t","e","m">> \o str(idx)

\* variant: the base id is upper-cased and not sanitized
clean_id_unsanitized(base, item_title) ==
  IF upper(base) # <<>> THEN upper(base) ELSE <<"I","D">> \o md5_hex6(item_title)

\* re.sub(r"[^\w]+", "", base_id.upper()) or f"ID{md5...[:6]}"
clean_id(base, item_title) ==
  LET kept == SelectSeq(upper(base), IsWordChar)
  IN  IF kept # <<>> THEN kept ELSE <<"I","D">> \o md5_hex6(item_title)

\* variant: the id carries a stamp of the run that wrote it
chunk_id_stamped(meeting_code, clean) == meeting_code \o <<"_">> \o clean \o str(exports)

\* chunk_id = f"{meeting_code}_{clean_id}"
chunk_id_of(meeting_code, clean) == meeting_code \o <<"_">> \o clean

\* the body of "for idx, item in enumerate(agenda_items)"; idx counts from 0
chunk_of(meeting, item, idx) ==
  LET item_number == strip(Get(item, "item_number", <<>>))
      item_title  == strip(Get(item, "item_title", <<>>))
      item_text   == strip(Get(item, "item_text", <<>>))
      meeting_code == Get(meeting, "web_meeting_code", <<>>)
  IN  [chunk_id       |-> chunk_id_of(meeting_code, clean_id(base_id(item_number, idx), item_title)),
       meeting_code   |-> meeting_code,
       meeting_date   |-> Get(meeting, "meeting_date", None),
       committee_name |-> Get(meeting, "committee_name", None),
       item_number    |-> item_number,
       item_title     |-> item_title,
       text           |-> item_text,
       word_count     |-> word_count_of(item_text)]

chunks_of_meeting(meeting) ==
  LET agenda_items == Get(meeting, "agenda_items", <<>>)
  IN  [i \in 1..Len(agenda_items) |-> chunk_of(meeting, agenda_items[i], i - 1)]

\* cleaned_chunks after "for meeting in meetings"
RECURSIVE cleaned_chunks(_)
cleaned_chunks(ms) ==
  IF ms = <<>> THEN <<>>
  ELSE cleaned_chunks(SubSeq(ms, 1, Len(ms) - 1)) \o chunks_of_meeting(ms[Len(ms)])

\* agenda items as scrape_meeting_metadata builds them
ItemNumbers == { <<>>, <<"5">>, <<"5",".">>, <<" ">>, <<"-">> }
ItemTitles == { <<"A">>, <<"B">> }
\* a row with a title only and a procedural row
ExtraItems ==
  { [item_number |-> <<"6">>, item_title |-> <<"A">>, item_text |-> <<>>, pdf_urls |-> <<>>],
    [item_number |-> <<"1">>, item_title |-> <<"A","p","o","l","o","g","i","e","s">>, item_text |-> <<"t">>, pdf_urls |-> <<>>] }
AgendaItems ==
  {[item_number |-> n, item_title |-> t, item_text |-> <<"t">>, pdf_urls |-> <<>>] :
     n \in ItemNumbers, t \in ItemTitles}
    \cup ExtraItems

ItemsPage(items) == [has_title |-> TRUE, title |-> <<"A">>, heading |-> CabinetHeading, agenda_items |-> items]

\* the records of the scraper's output file with n agenda items for meeting
\* mid; the rows of a page are different agenda items
MeetingsWith(mid, n) ==
  {MeetingRecord(mid, ItemsPage(items)) :
     items \in {q \in SeqsUpTo(AgendaItems, n) :
                  Len(q) = n /\ \A i, j \in 1..n : i # j => q[i] # q[j]}}
    \cup (IF n = 0 THEN {ErrorRecord(mid, "timeout")} ELSE {})

\* inputs of one or two meetings with different codes and at most MaxItems items in all
ChunkInputs ==
  UNION {{<<m>> : m \in MeetingsWith(mid, n)} : mid \in 9..10, n \in 0..MaxItems}
    \cup UNION {{<<m1, m2>> : m1 \in MeetingsWith(w[1], w[3]), m2 \in MeetingsWith(w[2], w[4])} :
                  w \in {v \in (9..10) \X (9..10) \X (0..MaxItems) \X (0..MaxItems) :
                           v[1] # v[2] /\ v[3] + v[4] <= MaxItems}}

InitChunks ==
  /\ file = <<>>
  /\ InitRun
  /\ InitStatusIdle
  /\ meetings \in ChunkInputs
  /\ chunks = <<>>
  /\ exported = <<>>
  /\ prev_chunks = <<>>
  /\ prev_exported = <<>>
  /\ exports = 0
  /\ InitRestIdle

\* one run of the cell: read the input, build cleaned_chunks, open(output_path, "w")
ExportChunks ==
  /\ exports < MaxExports
  /\ chunks' = cleaned_chunks(meetings)
  /\ exported' = meetings
  /\ prev_chunks' = chunks
  /\ prev_exported' = exported
  /\ exports' = exports + 1
  /\ UNCHANGED <<meetings, scraperVars, statusVars, restVars>>

RemoveAt(q, i) == SubSeq(q, 1, i - 1) \o SubSeq(q, i + 1, Len(q))

\* between two exports the input changes: a meeting's agenda loses an item
RemoveItem ==
  /\ exports >= 1
  /\ exports < MaxExports
  /\ \E m \in 1..Len(meetings) :
       /\ "agenda_items" \in DOMAIN meetings[m]
       /\ \E i \in 1..Len(meetings[m].agenda_items) :
            meetings' = [meetings EXCEPT ![m].agenda_items = RemoveAt(@, i)]
  /\ UNCHANGED <<chunks, exported, prev_chunks, prev_exported, exports, scraperVars, statusVars, restVars>>

NextChunks == ExportChunks \/ RemoveItem

SpecChunks == InitChunks /\ [][NextChunks]_vars

ChunkIds(cs) == [k \in 1..Len(cs) |-> cs[k].chunk_id]

SameItem(c, d) ==
  /\ c.meeting_code = d.meeting_code
  /\ c.item_title = d.item_title
  /\ c.text = d.text
  /\ c.item_number = d.item_number

\* the export cs holds the item of chunk c once
Once(cs, c) == Cardinality({k \in 1..Len(cs) : SameItem(cs[k], c)}) = 1

\* C9 as stated: an item without item_number gets an id from its content, so
\* an unchanged item (one of its content in its meeting) has the same chunk_id
\* wherever it stands in the agenda list and whatever other items were removed.
C9_Original ==
  exports >= 2 =>
    \A a \in 1..Len(chunks), b \in 1..Len(prev_chunks) :
       (/\ chunks[a].item_number = <<>>
        /\ SameItem(chunks[a], prev_chunks[b])
        /\ Once(chunks, chunks[a])
        /\ Once(prev_chunks, prev_chunks[b]))
          => chunks[a].chunk_id = prev_chunks[b].chunk_id

\* the place in the lines of chunks.jsonl of item i of meeting m of the input ms
RECURSIVE Offset(_, _)
Offset(ms, m) == IF m = 1 THEN 0 ELSE Offset(ms, m - 1) + Len(Get(ms[m-1], "agenda_items", <<>>))

\* C9 as amended: an item without item_number gets the meeting code plus ITEM
\* and its 0-based position in the meeting's agenda list; the MD5 fallback
\* (ID and 6 hex digits of the MD5 of the title) is used exactly when the
\* item_number is not empty but has no word character.
C9_Amended ==
  exports >= 1 =>
    \A m \in 1..Len(exported) :
      LET items == Get(exported[m], "agenda_items", <<>>)
          code == exported[m].web_meeting_code
      IN  \A i \in 1..Len(items) :
            LET c == chunks[Offset(exported, m) + i]
                num == strip(items[i].item_number)
            IN  /\ num = <<>> => c.chunk_id = code \o <<"_","I","T","E","M">> \o str(i - 1)
                /\ (num # <<>> /\ \A k \in 1..Len(num) : ~IsWordChar(num[k]))
                     <=> c.chunk_id = code \o <<"_","I","D">> \o md5_hex6(strip(items[i].item_title))

C9_Witness ==
  /\ exports >= 2
  /\ \E a \in 1..Len(chunks), b \in 1..Len(prev_chunks) :
       /\ chunks[a].item_number = <<>>
       /\ SameItem(chunks[a], prev_chunks[b])
       /\ Once(chunks, chunks[a])
       /\ Once(prev_chunks, prev_chunks[b])
       /\ chunks[a].chunk_id # prev_chunks[b].chunk_id

\* C10: no two chunk records written by one export carry the same chunk_id.
C10_Unique ==
  \A a, b \in 1..Len(chunks) : a # b => chunks[a].chunk_id # chunks[b].chunk_id

\* C11: every chunk record carries a text_hash, and two chunks have equal
\* text_hash exactly when their text is equal.
C11_TextHash ==
  /\ \A a \in 1..Len(chunks) : "text_hash" \in DOMAIN chunks[a]
  /\ \A a, b \in 1..Len(chunks) :
        (chunks[a].text_hash = chunks[b].text_hash) <=> (chunks[a].text = chunks[b].text)

\* C12: no chunk record with empty text is written.
C12_NoEmptyText ==
  \A a \in 1..Len(chunks) : chunks[a].text # <<>>

\* low_signal_keywords
low_signal_keywords ==
  { <<"a","p","o","l","o","g","i","e","s">>,
    <<"s","u","b","s","t","i","t","u","t","e","s">>,
    <<"p","a","n","e","l"," ","b","u","s","i","n","e","s","s">>,
    <<"m","o","t","i","o","n"," ","t","o"," ","e","x","c","l","u","d","e">>,
    <<"m","i","n","u","t","e","s"," ","o","f"," ","t","h","e"," ","m","e","e","t","i","n","g">>,
    <<"f","u","t","u","r","e"," ","w","o","r","k"," ","p","r","o","g","r","a","m","m","e">>,
    <<"w","e","b","c","a","s","t">>,
    <<"a","n","y"," ","o","t","h","e","r"," ","b","u","s","i","n","e","s","s">> }

\* C13: no chunk record has a title that contains one of the procedural keywords.
C13_NoProcedural ==
  \A a \in 1..Len(chunks) :
     \A kw \in low_signal_keywords : ~Contains(lower(chunks[a].item_title), kw)

(***************************************************************************)
(* notebooks/test.ipynb: the meetings-metadata build.  It loads the        *)
(* registry into a dict keyed by meeting_id, walks the committee and       *)
(* meeting folders, and rewrites the registry from the dict.  A dict is a  *)
(* sequence of records with pairwise different keys, in insertion order.   *)
(***************************************************************************)
MaxBuilds == 2

IsSlugChar(c) == c \in Range(Lower) \cup Digits

\* the rest of s after its leading characters outside [a-z0-9]
RECURSIVE skip_non_slug(_)
skip_non_slug(s) == IF s # <<>> /\ ~IsSlugChar(Head(s)) THEN skip_non_slug(Tail(s)) ELSE s

\* re.sub(r"[^a-z0-9]+", "_", s)
RECURSIVE sub_non_slug(_)
sub_non_slug(s) ==
  IF s = <<>> THEN <<>>
  ELSE IF IsSlugChar(Head(s)) THEN <<Head(s)>> \o sub_non_slug(Tail(s))
  ELSE <<"_">> \o sub_non_slug(skip_non_slug(s))

\* s.strip("_")
RECURSIVE strip_underscores(_)
strip_underscores(s) ==
  IF s # <<>> /\ Head(s) = "_" THEN strip_underscores(Tail(s))
  ELSE IF s # <<>> /\ s[Len(s)] = "_" THEN strip_underscores(SubSeq(s, 1, Len(s) - 1))
  ELSE s

slugify(text) == strip_underscores(sub_non_slug(lower(text)))

\* f"kent_cc__{slugify(committee_name)}"
committee_id_of(committee_name) ==
  <<"k","e","n","t","_","c","c","_","_">> \o slugify(committee_name)

\* f"{date_str}_{committee_id}"
meeting_id_of(date_str, committee_id) == date_str \o <<"_">> \o committee_id

\* str(meeting_folder)
folder_path_of(e) ==
  <<".",".","/","d","a","t","a","/","c","o","u","n","c","i","l","_","d","o","c","u","m","e","n","t","s","/">>
    \o e.committee_name \o <<"/">> \o e.name

\* the position of key in the dict, 0 when it is absent
dict_index(d, key) ==
  IF \E i \in 1..Len(d) : d[i].meeting_id = key
  THEN CHOOSE i \in 1..Len(d) : d[i].meeting_id = key
  ELSE 0

\* variant: a list of records, appended to, instead of a dict
dict_set_append(d, key, rec) == Append(d, rec)

\* d[key] = rec
dict_set(d, key, rec) ==
  IF dict_index(d, key) = 0 THEN Append(d, rec)
  ELSE [d EXCEPT ![dict_index(d, key)] = rec]

\* an empty dict instead of the registry's records
load_metadata_fresh(lines) == <<>>

\* for line in f: meetings_metadata[record["meeting_id"]] = record
RECURSIVE load_metadata(_)
load_metadata(lines) ==
  IF lines = <<>> THEN <<>>
  ELSE LET rec == lines[Len(lines)]
       IN  dict_set(load_metadata(SubSeq(lines, 1, Len(lines) - 1)), rec.meeting_id, rec)

\* the body of the inner for loop for one entry of a committee folder
visit_folder(d, e) ==
  IF ~e.is_dir THEN d
  ELSE LET committee_id == committee_id_of(e.committee_name)
           date_str == e.name
           meeting_id == meeting_id_of(date_str, committee_id)
           fresh == [meeting_id |-> meeting_id, committee_id |-> committee_id,
                     meeting_date |-> date_str, folder_path |-> folder_path_of(e)]
           found == IF dict_index(d, meeting_id) = 0 THEN fresh ELSE d[dict_index(d, meeting_id)]
           record == IF IsNone(e.summary) THEN found
                     ELSE [k \in DOMAIN found \cup {"summary"} |->
                             IF k = "summary" THEN strip(e.summary.some) ELSE found[k]]
       IN  dict_set(d, meeting_id, record)

\* the two for loops over the entries in the order iterdir yields them
RECURSIVE walk_folders(_, _)
walk_folders(d, walk) ==
  IF walk = <<>> THEN d
  ELSE walk_folders(visit_folder(d, Head(walk)), Tail(walk))

\* the folders and files the model places under BASE_DIR
Cab == <<"C","a","b">>
CabDash == <<"c","a","b","-">>
Date1 == <<"2","0","2","5","-","0","1","-","3","0">>
Date2 == <<"2","0","2","5","-","0","3","-","1","3">>
DSStore == <<".","D","S","_","S","t","o","r","e">>
FolderKeys == {<<Cab, Date1>>, <<CabDash, Date1>>, <<Cab, Date2>>}
SummaryTexts == {<<" ","s","\n">>, <<"t">>}

Folder(k, summary) == [committee_name |-> k[1], name |-> k[2], is_dir |-> TRUE, summary |-> summary]
PlainFile == [committee_name |-> Cab, name |-> DSStore, is_dir |-> FALSE, summary |-> None]

HasEntry(c, n) == \E e \in tree : e.committee_name = c /\ e.name = n

RECURSIVE Perms(_)
Perms(S) == IF S = {} THEN {<<>>} ELSE UNION {{<<x>> \o w : w \in Perms(S \ {x})} : x \in S}

\* the orders in which the nested iterdir loops may visit the entries: one
\* committee folder after the other
Walks(t) ==
  {w \in Perms(t) :
     \A i, j, k \in 1..Len(w) :
       i < j /\ j < k /\ w[i].committee_name = w[k].committee_name
         => w[j].committee_name = w[i].committee_name}

\* the meeting ids of a dict or of the lines of the registry
Keys(d) == {d[i].meeting_id : i \in 1..Len(d)}

\* the meeting ids the folders of the tree stand for
TreeIds(t) == {meeting_id_of(e.name, committee_id_of(e.committee_name)) : e \in {x \in t : x.is_dir}}

\* a meeting folder is created under a committee folder
AddFolder(k) ==
  /\ builds < MaxBuilds
  /\ ~HasEntry(k[1], k[2])
  /\ tree' = tree \cup {Folder(k, None)}
  /\ UNCHANGED <<registry, prev_registry, gone, builds>>
  /\ UNCHANGED <<scraperVars, statusVars, chunkVars, newsVars, embedVars, docVars, batchVars>>

\* a file that is no folder appears in a committee folder
AddPlainFile ==
  /\ builds < MaxBuilds
  /\ HasEntry(Cab, Date1) \/ HasEntry(Cab, Date2)
  /\ PlainFile \notin tree
  /\ tree' = tree \cup {PlainFile}
  /\ UNCHANGED <<registry, prev_registry, gone, builds>>
  /\ UNCHANGED <<scraperVars, statusVars, chunkVars, newsVars, embedVars, docVars, batchVars>>

\* summary.txt is written or rewritten in a meeting folder
WriteSummary(e, text) ==
  /\ builds < MaxBuilds
  /\ e \in tree
  /\ e.is_dir
  /\ e.summary # Some(text)
  /\ tree' = (tree \ {e}) \cup {[e EXCEPT !.summary = Some(text)]}
  /\ UNCHANGED <<registry, prev_registry, gone, builds>>
  /\ UNCHANGED <<scraperVars, statusVars, chunkVars, newsVars, embedVars, docVars, batchVars>>

\* a meeting folder is removed from the tree
RemoveFolder(e) ==
  /\ builds >= 1
  /\ builds < MaxBuilds
  /\ e \in tree
  /\ e.is_dir
  /\ tree' = tree \ {e}
  /\ UNCHANGED <<registry, prev_registry, gone, builds>>
  /\ UNCHANGED <<scraperVars, statusVars, chunkVars, newsVars, embedVars, docVars, batchVars>>

\* one run of the cell: load the registry, walk the folders, open(OUTPUT_FILE, "w")
BuildMetadata ==
  /\ builds < MaxBuilds
  /\ \E walk \in Walks(tree) :
       registry' = walk_folders(load_metadata(registry), walk)
  /\ prev_registry' = registry
  /\ gone' = Keys(registry) \ TreeIds(tree)
  /\ builds' = builds + 1
  /\ UNCHANGED tree
  /\ UNCHANGED <<scraperVars, statusVars, chunkVars, newsVars, embedVars, docVars, batchVars>>

NextBuild ==
  \/ \E k \in FolderKeys : AddFolder(k)
  \/ AddPlainFile
  \/ \E e \in tree, text \in SummaryTexts : WriteSummary(e, text)
  \/ \E e \in tree : RemoveFolder(e)
  \/ BuildMetadata

SpecBuild == Init /\ [][NextBuild]_vars

\* the record of the registry lines with the given meeting id
RecordOf(lines, id) == lines[CHOOSE i \in 1..Len(lines) : lines[i].meeting_id = id]

\* C16: after a build, every meeting_id the registry held before the build is
\* still in the registry, and every field of its record other than summary
\* has the value it had before.
C16_MergeByKey ==
  builds >= 1 =>
    \A i \in 1..Len(prev_registry) :
      LET old == prev_registry[i]
      IN  /\ old.meeting_id \in Keys(registry)
          /\ \A k \in DOMAIN old \ {"summary"} :
               /\ k \in DOMAIN RecordOf(registry, old.meeting_id)
               /\ RecordOf(registry, old.meeting_id)[k] = old[k]

\* a build kept the record of a meeting whose folder was gone, and wrote a
\* changed summary into the record of another
C16_Witness ==
  /\ builds >= 2
  /\ gone # {}
  /\ \E i \in 1..Len(prev_registry) :
       /\ prev_registry[i].meeting_id \in Keys(registry) \ gone
       /\ "summary" \in DOMAIN prev_registry[i]
       /\ RecordOf(registry, prev_registry[i].meeting_id).summary # prev_registry[i].summary

\* the council code of the meeting ids
COUNCIL_CODE == <<"k","e","n","t","_","c","c">>

\* id is the council code, an underscore and a code of digits
IsCouncilMeetingId(id) ==
  /\ IsPrefix(COUNCIL_CODE \o <<"_">>, id)
  /\ Len(id) > Len(COUNCIL_CODE) + 1
  /\ \A i \in (Len(COUNCIL_CODE) + 2)..Len(id) : id[i] \in Digits

\* C14: every meeting record the scraper appends carries a meeting_id equal
\* to the council code, an underscore and its web_meeting_code, and every
\* record of the meetings registry is keyed by an id of that form.
C14_MeetingId ==
  /\ \A i \in 1..Len(file) :
       file[i].intact /\ "error" \notin DOMAIN file[i].obj =>
         /\ "meeting_id" \in DOMAIN file[i].obj
         /\ file[i].obj.meeting_id = COUNCIL_CODE \o <<"_">> \o file[i].obj.web_meeting_code
  /\ \A i \in 1..Len(registry) : IsCouncilMeetingId(registry[i].meeting_id)

(***************************************************************************)
(* notebooks/0Z_Scraping_KentOnline_news_draft.ipynb: the news scraper.    *)
(* It collects the article links of a section page, fetches each article,  *)
(* and adds the articles whose url the store does not hold yet.            *)
(***************************************************************************)
MaxLinks == 2
MaxNewsRuns == 2

BASE_URL == <<"h","t","t","p","s",":","/","/","w","w","w",".","k","e","n","t","o","n","l","i","n","e",".","c","o",".","u","k">>
KentNews == <<"/","k","e","n","t","/","n","e","w","s","/">>

\* article_links = article_links[:30]
LinkLimit == 30

\* the href values of the links of a section page
Hrefs ==
  { KentNews \o <<"a">>,
    KentNews \o <<"b">>,
    <<"/","s","p","o","r","t">> \o KentNews \o <<"a">>,
    <<"/","j","o","b","s">> }

\* what an article page holds: JSON-LD metadata or none
ArticlePages == {[json_ld |-> FALSE], [json_ld |-> TRUE]}

\* the first n elements of s
Take(s, n) == SubSeq(s, 1, IF Len(s) < n THEN Len(s) ELSE n)

\* for a in soup.select("a[href*='/kent/news/']"): ... article_links.append(BASE_URL + href)
RECURSIVE collect_links(_, _)
collect_links(article_links, anchors) ==
  IF anchors = <<>> THEN article_links
  ELSE LET href == Head(anchors)
       IN  IF /\ Contains(href, KentNews)
              /\ href # <<>>
              /\ IsPrefix(KentNews, href)
              /\ href \notin Range(article_links)
           THEN collect_links(Append(article_links, BASE_URL \o href), Tail(anchors))
           ELSE collect_links(article_links, Tail(anchors))

\* article_data of the article page fetched from url
article_data_of(url, pg) ==
  [title |-> IF pg.json_ld THEN Some(<<"T">>) ELSE None,
   author |-> None,
   date |-> IF pg.json_ld THEN Some(<<"2","0","2","5">>) ELSE None,
   tags |-> <<>>,
   url |-> url,
   article_text |-> <<>>]

\* variant: the run saves the articles it scraped, whatever the file held
NewsRun_overwrite(anchors, pg) ==
  /\ news_runs < MaxNewsRuns
  /\ LET article_links == Take(collect_links(<<>>, anchors), LinkLimit)
         articles_data == [i \in 1..Len(article_links) |-> article_data_of(article_links[i], pg)]
         existing_articles == store
         existing_urls == {existing_articles[i].url : i \in 1..Len(existing_articles)}
         IsNew(article) == article.url \notin existing_urls
         new_articles == SelectSeq(articles_data, IsNew)
     IN  /\ store' = articles_data
         /\ store_writes' = store_writes + 1
  /\ prev_store' = store
  /\ section' = anchors
  /\ news_runs' = news_runs + 1
  /\ UNCHANGED <<scraperVars, statusVars, chunkVars, buildVars, embedVars, docVars, batchVars>>

\* one run of the cell on a section page with the given anchors
NewsRun(anchors, pg) ==
  /\ news_runs < MaxNewsRuns
  /\ LET article_links == Take(collect_links(<<>>, anchors), LinkLimit)
         articles_data == [i \in 1..Len(article_links) |-> article_data_of(article_links[i], pg)]
         existing_articles == store
         existing_urls == {existing_articles[i].url : i \in 1..Len(existing_articles)}
         IsNew(article) == article.url \notin existing_urls
         new_articles == SelectSeq(articles_data, IsNew)
     IN  /\ store' = IF new_articles # <<>> THEN existing_articles \o new_articles ELSE store
         /\ store_writes' = IF new_articles # <<>> THEN store_writes + 1 ELSE store_writes
  /\ prev_store' = store
  /\ section' = anchors
  /\ news_runs' = news_runs + 1
  /\ UNCHANGED <<scraperVars, statusVars, chunkVars, buildVars, embedVars, docVars, batchVars>>

SpecNews ==
  Init /\ [][\E anchors \in SeqsUpTo(Hrefs, MaxLinks), pg \in ArticlePages : NewsRun(anchors, pg)]_vars

\* C15: no URL appears in more than one article of the news store.
C15_UniqueUrls ==
  \A i, j \in 1..Len(store) : store[i].url = store[j].url => i = j

(***************************************************************************)
(* The manifest update (2_update_manifest.py) and the embedding builder    *)
(* (4_embedding_master.py).  A manifest entry holds the text_hash of its   *)
(* chunk and the status flags chunked, ready_for_embedding and             *)
(* embedding_small; the embedded flag of an entry belongs to its current   *)
(* text_hash.  The builder appends one vector to the index and one line to *)
(* the metadata registry for each entry it embeds.                         *)
(***************************************************************************)
MaxEmbedRuns == 2

ChunkTexts == {"x", "y"}

\* the order in which a stage walks the entries of the manifest
ChunkOrder == <<"c1", "c2">>

\* SHA-256 of the chunk text
text_hash_of(text) == <<"sha256", text>>

\* variant: every ready entry is embedded, embedded before or not
selected_when_ready(e) == ~IsNone(e) /\ e.ready_for_embedding

\* variant: entries that are ready or not yet embedded
selected_or_unembedded(e) == ~IsNone(e) /\ (e.ready_for_embedding \/ ~e.embedding_small)

\* the builder embeds the entries flagged ready_for_embedding whose
\* text_hash has no embedding_small flag yet
selected(e) == ~IsNone(e) /\ e.ready_for_embedding /\ ~e.embedding_small

\* variant: the entry is written anew for every generated chunk
updated_entry_replaced(e, text) ==
  [text_hash |-> Some(text_hash_of(text)), chunked |-> TRUE,
   ready_for_embedding |-> TRUE, embedding_small |-> FALSE]

\* the entry of a generated chunk after the manifest update: a new or
\* changed chunk is flagged ready_for_embedding, an unchanged one is left alone
updated_entry(e, text) ==
  IF ~IsNone(e) /\ e.text_hash = Some(text_hash_of(text)) THEN e
  ELSE [text_hash |-> Some(text_hash_of(text)), chunked |-> TRUE,
        ready_for_embedding |-> TRUE, embedding_small |-> FALSE]

\* the vectors or metadata lines of chunk c
CountOf(q, c) == Cardinality({i \in 1..Len(q) : q[i].chunk_id = c})

\* a document is registered in the manifest before it is chunked
RegisterEntry(c) ==
  /\ embed_runs < MaxEmbedRuns
  /\ IsNone(manifest[c])
  /\ manifest' = [manifest EXCEPT ![c] =
                    [text_hash |-> None, chunked |-> FALSE,
                     ready_for_embedding |-> FALSE, embedding_small |-> FALSE]]
  /\ UNCHANGED <<generated, index, metadata, since, embed_runs>>
  /\ UNCHANGED <<scraperVars, statusVars, chunkVars, buildVars, newsVars, docVars, batchVars>>

\* stage 1 generates chunk c, or generates it again with another text
GenerateChunk(c, text) ==
  /\ embed_runs < MaxEmbedRuns
  /\ generated[c] # Some(text)
  /\ generated' = [generated EXCEPT ![c] = Some(text)]
  /\ UNCHANGED <<manifest, index, metadata, since, embed_runs>>
  /\ UNCHANGED <<scraperVars, statusVars, chunkVars, buildVars, newsVars, docVars, batchVars>>

\* one run of the manifest update over the generated chunks
UpdateManifest ==
  /\ embed_runs < MaxEmbedRuns
  /\ manifest' = [c \in ChunkKeys |->
                    IF IsNone(generated[c]) THEN manifest[c]
                    ELSE updated_entry(manifest[c], generated[c].some)]
  /\ manifest' # manifest
  /\ since' = [c \in ChunkKeys |->
                 IF manifest'[c] = manifest[c] THEN since[c]
                 ELSE [runs |-> 0, unready |-> since[c].unready,
                       vectors |-> CountOf(index, c), lines |-> CountOf(metadata, c)]]
  /\ UNCHANGED <<generated, index, metadata, embed_runs>>
  /\ UNCHANGED <<scraperVars, statusVars, chunkVars, buildVars, newsVars, docVars, batchVars>>

\* one run of the embedding builder over the manifest, the embedding API answering
EmbedRun ==
  /\ embed_runs < MaxEmbedRuns
  /\ LET IsSelected(c) == selected(manifest[c])
         batch == SelectSeq(ChunkOrder, IsSelected)
         units == [i \in 1..Len(batch) |->
                     [chunk_id |-> batch[i], text_hash |-> manifest[batch[i]].text_hash]]
     IN  /\ index' = index \o units
         /\ metadata' = metadata \o units
         /\ manifest' = [c \in ChunkKeys |->
                           IF IsSelected(c) THEN [manifest[c] EXCEPT !.embedding_small = TRUE]
                           ELSE manifest[c]]
  /\ since' = [c \in ChunkKeys |->
                 IF IsNone(manifest[c]) THEN since[c]
                 ELSE IF manifest[c].ready_for_embedding THEN [since[c] EXCEPT !.runs = @ + 1]
                 ELSE [since[c] EXCEPT !.unready = @ + 1]]
  /\ embed_runs' = embed_runs + 1
  /\ UNCHANGED generated
  /\ UNCHANGED <<scraperVars, statusVars, chunkVars, buildVars, newsVars, docVars, batchVars>>

NextEmbed ==
  \/ \E c \in ChunkKeys : RegisterEntry(c)
  \/ \E c \in ChunkKeys, text \in ChunkTexts : GenerateChunk(c, text)
  \/ UpdateManifest
  \/ EmbedRun

SpecEmbed == Init /\ [][NextEmbed]_vars

\* C17: once the embedding builder has run on an entry since its text_hash
\* was set, the index holds exactly one vector and the metadata registry
\* exactly one line more for the chunk than before, however many runs
\* followed, and embedding_small is true.
C17_EmbedOnce ==
  \A c \in ChunkKeys :
    ~IsNone(manifest[c]) /\ since[c].runs >= 1 =>
      /\ CountOf(index, c) = since[c].vectors + 1
      /\ CountOf(metadata, c) = since[c].lines + 1
      /\ manifest[c].embedding_small

\* the builder ran twice on an entry with the same text_hash, and the chunk
\* had been embedded with another text before
C17_Witness ==
  /\ \E c \in ChunkKeys :
       /\ ~IsNone(manifest[c])
       /\ since[c].runs >= 2
       /\ CountOf(index, c) = 1
  /\ \E c \in ChunkKeys :
       /\ ~IsNone(manifest[c])
       /\ since[c].runs >= 1
       /\ since[c].vectors >= 1

MaxDocRuns == 3

\* the PDF files the scraper may save
DocFiles ==
  { [path |-> "f1", folder |-> "m1", bytes |-> [text |-> <<"A","b">>, producer |-> "p"]],
    [path |-> "f2", folder |-> "m1", bytes |-> [text |-> <<"A","b">>, producer |-> "p"]],
    [path |-> "f3", folder |-> "m2", bytes |-> [text |-> <<"A","b">>, producer |-> "p"]],
    [path |-> "f4", folder |-> "m1", bytes |-> [text |-> <<" ","a","b","!">>, producer |-> "q"]],
    [path |-> "f5", folder |-> "m1", bytes |-> [text |-> <<"a","c">>, producer |-> "p"]] }

\* the binary content hash of a file
content_hash_of(bytes) == <<"hash", bytes>>

\* runs of whitespace become one space
RECURSIVE collapse_spaces(_)
collapse_spaces(s) ==
  IF s = <<>> THEN <<>>
  ELSE IF IsSpace(Head(s))
       THEN <<" ">> \o collapse_spaces(lstrip(s))
       ELSE <<Head(s)>> \o collapse_spaces(Tail(s))

\* whitespace, case and punctuation normalization of the extracted text
normalize_text(text) ==
  LET NotPunctuation(c) == c \notin {"!", ".", ",", ";", ":", "-", "?"}
  IN  strip(collapse_spaces(lower(SelectSeq(text, NotPunctuation))))

\* variant: the hash of the first character of the normalized text
normalized_hash_of_head(text) == <<"sha256", SubSeq(normalize_text(text), 1, 1)>>

\* SHA-256 of the normalized text
normalized_hash_of(text) == <<"sha256", normalize_text(text)>>

\* variant: the duplicate files are deleted
relocated_deleted(area, moved) == area

\* the duplicates area after the files were moved into it
relocated(area, moved) == area \cup moved

\* the files under the meeting folders that have no registry entry yet
Unregistered == {f \in originals : \A i \in 1..Len(documents) : documents[i].path # f.path}

\* the registry entry of a file, a true duplicate or not
entry_of(f, is_duplicate) ==
  [path |-> f.path, folder |-> f.folder, bytes |-> f.bytes,
   hash |-> content_hash_of(f.bytes), doc_id |-> <<"doc", content_hash_of(f.bytes)>>,
   duplicate_removed |-> is_duplicate, text_hash |-> None, is_text_duplicate_of |-> None]

\* the scraper saves a PDF into its meeting folder
AddFile(f) ==
  /\ doc_runs < MaxDocRuns
  /\ f \notin placed
  /\ placed' = placed \cup {f}
  /\ originals' = originals \cup {f}
  /\ UNCHANGED <<duplicates, documents, doc_runs>>
  /\ UNCHANGED <<scraperVars, statusVars, chunkVars, buildVars, newsVars, embedVars, batchVars>>

\* one run of the document-id assignment: the files without an entry are
\* registered in the order they are discovered; a file whose hash an
\* earlier file of the same folder has is moved to the duplicates area
AssignDocumentIds ==
  /\ doc_runs < MaxDocRuns
  /\ \E found \in Perms(Unregistered) :
       LET SameContent(f, g) == f.folder = g.folder /\ content_hash_of(f.bytes) = content_hash_of(g.bytes)
           IsDuplicate(i) ==
             \/ \E k \in 1..Len(documents) : ~documents[k].duplicate_removed /\ SameContent(documents[k], found[i])
             \/ \E j \in 1..(i - 1) : SameContent(found[j], found[i])
           moved == {found[i] : i \in {j \in 1..Len(found) : IsDuplicate(j)}}
       IN  /\ documents' = documents \o [i \in 1..Len(found) |-> entry_of(found[i], IsDuplicate(i))]
           /\ originals' = originals \ moved
           /\ duplicates' = relocated(duplicates, moved)
  /\ doc_runs' = doc_runs + 1
  /\ UNCHANGED placed
  /\ UNCHANGED <<scraperVars, statusVars, chunkVars, buildVars, newsVars, embedVars, batchVars>>

\* one run of the text deduplication: every entry that is no removed
\* duplicate and has no text hash yet gets one, and is flagged when an
\* earlier entry has the same normalized-text hash
TextDeduplication ==
  /\ doc_runs < MaxDocRuns
  /\ LET Hash(i) == normalized_hash_of(documents[i].bytes.text)
         Earlier(i) == {j \in 1..(i - 1) : ~documents[j].duplicate_removed /\ Hash(j) = Hash(i)}
         First(i) == CHOOSE j \in Earlier(i) : \A k \in Earlier(i) : j <= k
     IN  documents' = [i \in 1..Len(documents) |->
                         IF documents[i].duplicate_removed \/ ~IsNone(documents[i].text_hash)
                         THEN documents[i]
                         ELSE [documents[i] EXCEPT
                                 !.text_hash = Some(Hash(i)),
                                 !.is_text_duplicate_of =
                                    IF Earlier(i) # {} THEN Some(documents[First(i)].doc_id) ELSE None]]
  /\ doc_runs' = doc_runs + 1
  /\ UNCHANGED <<placed, originals, duplicates>>
  /\ UNCHANGED <<scraperVars, statusVars, chunkVars, buildVars, newsVars, embedVars, batchVars>>

NextDocs ==
  \/ \E f \in DocFiles : AddFile(f)
  \/ AssignDocumentIds
  \/ TextDeduplication

SpecDocs == Init /\ [][NextDocs]_vars

\* the registered files with the folder and the bytes of entry i
Group(i) == {k \in 1..Len(documents) :
               documents[k].folder = documents[i].folder /\ documents[k].bytes = documents[i].bytes}

FileOf(e) == [path |-> e.path, folder |-> e.folder, bytes |-> e.bytes]

\* C19: the files under the meeting folders together with the files in the
\* duplicates area are the files that were saved, and of the registered
\* files of one folder with the same bytes exactly one is the canonical
\* entry, under its meeting folder, while every other one is in the
\* duplicates area and flagged duplicate_removed.
C19_NoFileDestroyed ==
  /\ originals \cup duplicates = placed
  /\ originals \cap duplicates = {}
  /\ \A i \in 1..Len(documents) :
       /\ Cardinality({k \in Group(i) : ~documents[k].duplicate_removed}) = 1
       /\ documents[i].duplicate_removed <=> FileOf(documents[i]) \in duplicates
       /\ ~documents[i].duplicate_removed <=> FileOf(documents[i]) \in originals

\* two files of one folder with the same bytes are registered, one moved,
\* and a file with the same bytes in another folder stayed in its folder
C19_Witness ==
  /\ \E i, k \in 1..Len(documents) :
       /\ i # k
       /\ k \in Group(i)
       /\ documents[k].duplicate_removed
       /\ FileOf(documents[k]) \in duplicates
  /\ \E i, k \in 1..Len(documents) :
       /\ documents[i].bytes = documents[k].bytes
       /\ documents[i].folder # documents[k].folder
       /\ ~documents[i].duplicate_removed
       /\ ~documents[k].duplicate_removed

\* the entries the text deduplication has processed
Hashed == {i \in 1..Len(documents) : ~IsNone(documents[i].text_hash)}

\* C20: a processed document is flagged is_text_duplicate_of exactly when
\* an earlier document has the same normalized text, the flag names the
\* doc_id of such a document, an earlier document is never flagged for a
\* later one, and every processed document stays in its meeting folder.
C20_StrictEquality ==
  \A i \in Hashed :
    LET Same == {j \in 1..(i - 1) :
                   /\ ~documents[j].duplicate_removed
                   /\ normalize_text(documents[j].bytes.text) = normalize_text(documents[i].bytes.text)}
    IN  /\ ~IsNone(documents[i].is_text_duplicate_of) <=> Same # {}
        /\ Same # {} =>
             \E j \in Same : documents[i].is_text_duplicate_of = Some(documents[j].doc_id)
        /\ FileOf(documents[i]) \in originals

\* a document whose bytes differ from an earlier one's and whose normalized
\* text is the same is flagged, the earlier one is not, and a processed
\* document with another text is not flagged
C20_Witness ==
  /\ \E i, j \in Hashed :
       /\ j < i
       /\ documents[j].bytes # documents[i].bytes
       /\ documents[j].bytes.text # documents[i].bytes.text
       /\ documents[i].is_text_duplicate_of = Some(documents[j].doc_id)
       /\ IsNone(documents[j].is_text_duplicate_of)
  /\ \E i \in Hashed :
       /\ i > 1
       /\ IsNone(documents[i].is_text_duplicate_of)

\* C21: a run of the manifest update leaves an entry that is embedded and
\* whose chunk has the stored text_hash unchanged in every field, flags the
\* entry of a new or changed chunk ready_for_embedding, and drops no entry.
C21_ManifestMerge ==
  [][UpdateManifest =>
       \A c \in ChunkKeys :
         /\ ~IsNone(manifest[c]) => ~IsNone(manifest'[c])
         /\ ( /\ ~IsNone(manifest[c])
              /\ manifest[c].embedding_small
              /\ ~IsNone(generated[c])
              /\ manifest[c].text_hash = Some(text_hash_of(generated[c].some)) )
            => manifest'[c] = manifest[c]
         /\ ( /\ ~IsNone(generated[c])
              /\ \/ IsNone(manifest[c])
                 \/ manifest[c].text_hash # Some(text_hash_of(generated[c].some)) )
            => manifest'[c].ready_for_embedding]_vars

\* an update reset the entry of a changed chunk that had been embedded and
\* left the embedded entry of an unchanged chunk alone
C21_Witness ==
  \E c, k \in ChunkKeys :
    /\ ~IsNone(manifest[c])
    /\ manifest[c].embedding_small
    /\ ~IsNone(generated[c])
    /\ manifest[c].text_hash = Some(text_hash_of(generated[c].some))
    /\ ~IsNone(manifest[k])
    /\ manifest[k].ready_for_embedding
    /\ ~manifest[k].embedding_small
    /\ since[k].vectors >= 1
    /\ manifest[k].text_hash = Some(text_hash_of(generated[k].some))

(***************************************************************************)
(* The batch summarisation workflow: submit_batch_job.py writes the        *)
(* request file and flags the selected documents pending,                  *)
(* upload_batch_to_openai.py uploads the request file as a job,            *)
(* process_batch_results.py reads the downloaded results, appends the      *)
(* summaries and flags the documents complete and summarised.              *)
(***************************************************************************)
MaxBatchSteps == 5

\* the submission step selects up to 3,500 documents
BatchLimit == 3500

\* the order in which a script walks the documents
BatchOrder == <<"d1", "d2">>

\* variant: every result is processed, whatever the status of its document
awaiting_any(entry) == TRUE

\* a result is processed for a document whose batch is pending
awaiting(entry) == entry.batch_status = "pending"

\* full text and metadata of a document become available
ExtractText(d) ==
  /\ batch_steps < MaxBatchSteps
  /\ d \notin available
  /\ available' = available \cup {d}
  /\ UNCHANGED <<pdf_manifest, batch_requests, jobs, batch_results, summaries, result_runs, batch_steps>>
  /\ UNCHANGED <<scraperVars, statusVars, chunkVars, buildVars, newsVars, embedVars, docVars>>

\* submit_batch_job.py: select the documents not submitted yet, write the
\* request file, flag the selected documents pending
SubmitBatch ==
  /\ batch_steps < MaxBatchSteps
  /\ LET IsChosen(d) == d \in available /\ pdf_manifest[d].batch_status = "none"
         chosen == Range(Take(SelectSeq(BatchOrder, IsChosen), BatchLimit))
     IN  /\ batch_requests' = chosen
         /\ pdf_manifest' = [d \in BatchDocs |->
                               IF d \in chosen THEN [pdf_manifest[d] EXCEPT !.batch_status = "pending"]
                               ELSE pdf_manifest[d]]
  /\ batch_steps' = batch_steps + 1
  /\ UNCHANGED <<available, jobs, batch_results, summaries, result_runs>>
  /\ UNCHANGED <<scraperVars, statusVars, chunkVars, buildVars, newsVars, embedVars, docVars>>

\* upload_batch_to_openai.py: the request file becomes a job of the batch API
UploadBatch ==
  /\ batch_steps < MaxBatchSteps
  /\ batch_requests # {}
  /\ jobs' = jobs \cup {batch_requests}
  /\ batch_steps' = batch_steps + 1
  /\ UNCHANGED <<available, pdf_manifest, batch_requests, batch_results, summaries, result_runs>>
  /\ UNCHANGED <<scraperVars, statusVars, chunkVars, buildVars, newsVars, embedVars, docVars>>

\* the batch API has finished a job and its results are downloaded
DownloadResults(job) ==
  /\ batch_steps < MaxBatchSteps
  /\ job \in jobs
  /\ batch_results # job
  /\ batch_results' = job
  /\ UNCHANGED <<available, pdf_manifest, batch_requests, jobs, summaries, result_runs, batch_steps>>
  /\ UNCHANGED <<scraperVars, statusVars, chunkVars, buildVars, newsVars, embedVars, docVars>>

\* process_batch_results.py: append a summary for every result whose
\* document is pending and flag the document complete and summarised
ProcessResults ==
  /\ batch_steps < MaxBatchSteps
  /\ LET IsDue(d) == d \in batch_results /\ awaiting(pdf_manifest[d])
         due == SelectSeq(BatchOrder, IsDue)
     IN  /\ summaries' = summaries \o [i \in 1..Len(due) |-> [doc_id |-> due[i]]]
         /\ pdf_manifest' = [d \in BatchDocs |->
                               IF IsDue(d) THEN [batch_status |-> "complete", summarised |-> TRUE]
                               ELSE pdf_manifest[d]]
  /\ result_runs' = [d \in BatchDocs |-> IF d \in batch_results THEN result_runs[d] + 1 ELSE result_runs[d]]
  /\ batch_steps' = batch_steps + 1
  /\ UNCHANGED <<available, batch_requests, jobs, batch_results>>
  /\ UNCHANGED <<scraperVars, statusVars, chunkVars, buildVars, newsVars, embedVars, docVars>>

SpecBatch ==
  Init /\ [][\/ \E d \in BatchDocs : ExtractText(d)
             \/ SubmitBatch
             \/ UploadBatch
             \/ \E job \in jobs : DownloadResults(job)
             \/ ProcessResults]_vars

\* the summaries written for document d
SummariesOf(d) == Cardinality({i \in 1..Len(summaries) : summaries[i].doc_id = d})

InitChunkIds ==
  /\ file = <<>>
  /\ InitRun
  /\ InitStatusIdle
  /\ InitRestIdle
  /\ meetings \in
       {<<MeetingRecord(9, ItemsPage(<<[item_number |-> n, item_title |-> <<"A">>,
                                        item_text |-> <<"t">>, pdf_urls |-> <<>>]>>))>> :
          n \in Concats({<<"5">>, <<"a">>, <<"_">>, <<".">>, <<"-">>, <<" ">>}, MaxAtoms)}
  /\ chunks = <<>>
  /\ exported = <<>>
  /\ prev_chunks = <<>>
  /\ prev_exported = <<>>
  /\ exports = 0

SpecChunkIds == InitChunkIds /\ [][ExportChunks]_vars

\* the part of a chunk_id after the meeting code and the underscore
IdPart(chunk) == SubSeq(chunk.chunk_id, Len(chunk.meeting_code) + 2, Len(chunk.chunk_id))

\* C23 as stated: the item-number part of every chunk_id consists of
\* letters and digits only.
C23_Original ==
  \A a \in 1..Len(chunks) :
    \A i \in 1..Len(IdPart(chunks[a])) : IsWordChar(IdPart(chunks[a])[i]) /\ IdPart(chunks[a])[i] # "_"

\* C23 amended: the item-number part of every chunk_id is not empty and
\* consists of word characters only, that is letters, digits and
\* underscores; when the item_number holds a word character the part is the
\* upper-cased item_number without its punctuation and white space, its
\* underscores kept.
C23_Amended ==
  \A a \in 1..Len(chunks) :
    LET part == IdPart(chunks[a])
        kept == SelectSeq(upper(chunks[a].item_number), IsWordChar)
    IN  /\ part # <<>>
        /\ \A i \in 1..Len(part) : IsWordChar(part[i])
        /\ kept # <<>> => part = kept

\* an item_number with an underscore and punctuation gave an id part that
\* keeps the underscore and drops the punctuation
C23_Witness ==
  \E a \in 1..Len(chunks) :
    /\ chunks[a].item_number = <<"_", ".">>
    /\ IdPart(chunks[a]) = <<"_">>

\* ---------------------------------------------------------------------------
\* C24: the politeness delay of run_scrape_batch
\* ---------------------------------------------------------------------------

FetchesOf(p) ==
  LET RECURSIVE Sum(_)
      Sum(S) == IF S = {} THEN 0
                ELSE LET id == CHOOSE x \in S : TRUE
                     IN  fetches[p][id] + Sum(S \ {id})
  IN  Sum(Ids)

\* C24: within one run every HTTP fetch is followed by exactly one sleep,
\* whatever the fetch gave (a record, a non-200 answer or an exception), so
\* exactly one sleep lies between two consecutive fetches; its duration lies in
\* the delay range of 1.5 to 3.5 seconds; an id skipped as already seen causes
\* neither a fetch nor a sleep.
C24_Politeness ==
  /\ [](\A p \in Procs :
          /\ sleeps[p] = FetchesOf(p)
          /\ sleeps[p] = 0 => slept[p] = 0
          /\ sleeps[p] >= 1 => (15 <= slept[p] /\ slept[p] <= 35))
  /\ [][\A p \in Procs :
          /\ (\E id \in Ids : fetches'[p][id] = fetches[p][id] + 1)
               => sleeps'[p] = sleeps[p] + 1
          /\ ( /\ pc[p] = "loop" /\ pc'[p] = "loop"
               /\ todo[p] # <<>> /\ todo'[p] = Tail(todo[p])
               /\ is_seen(Head(todo[p]), seen_ids[p]) )
               => (fetches'[p] = fetches[p] /\ sleeps'[p] = sleeps[p] /\ slept'[p] = slept[p])]_vars

\* a second run that skipped a seen id and slept once after its one fetch,
\* which was a non-200 answer, after a first run that slept after an exception
C24_Witness ==
  \E p \in Procs : \E a, b \in Ids :
     /\ runs >= 2 /\ pc[p] = "done"
     /\ a \in mids[p] /\ b \in mids[p]
     /\ is_seen(a, seen_ids[p]) /\ fetches[p][a] = 0
     /\ fetches[p][b] = 1 /\ Non200(last_res[p][b])
     /\ sleeps[p] = 1 /\ slept[p] = 35

\* ---------------------------------------------------------------------------
\* C25: two runs of run_scrape_batch at the same time (two kernels on the same
\* output file); every write appends one whole line
\* ---------------------------------------------------------------------------

\* each kernel runs the main block of the notebook once, with the same MIDS;
\* "A" names the kernel that starts first, and "B" starts whatever "A" is doing
SpecConcurrent ==
  Init /\ [][\/ \E b \in Bounds : pc["A"] = "idle" /\ StartRun("A", b[1], b[2])
             \/ \E b \in Bounds :
                  /\ pc["A"] # "idle" /\ pc["B"] = "idle"
                  /\ Range(range(b[1], b[2])) = mids["A"]
                  /\ StartRun("B", b[1], b[2])
             \/ Step]_vars

LinesFor(f, id) == {i \in 1..Len(f) : HasCode(f[i]) /\ f[i].obj.web_meeting_code = str(id)}

\* C25: nothing but the seen set loaded at the start of a run guards the
\* append: a run that fetches an id absent from its own seen set appends the
\* record it got, whatever the other run has written since, so two runs that
\* both loaded before either appended leave two records for the id.
C25_NoLock ==
  /\ [][\A p \in Procs : \A id \in Ids :
          fetches'[p][id] = fetches[p][id] + 1
            => /\ ~is_seen(id, seen_ids[p])
               /\ truthy(data'[p]) => file' = Append(file, json_dumps(data'[p]))]_vars
  /\ [](\A p, q \in Procs : \A id \in Ids :
          ( /\ p # q
            /\ appends[p][id] >= 1 /\ appends[q][id] >= 1
            /\ ~is_seen(id, seen_ids[p]) /\ ~is_seen(id, seen_ids[q]) )
            => Cardinality(LinesFor(file, id)) >= 2)

\* both runs are over, neither had the id in its seen set, and the file holds
\* two meeting records with the same web_meeting_code
C25_Witness ==
  \E id \in Ids : \E i, j \in LinesFor(file, id) :
     /\ i < j
     /\ IsMeetingRecord(file[i].obj, id) /\ IsMeetingRecord(file[j].obj, id)
     /\ \A p \in Procs : pc[p] = "done" /\ ~is_seen(id, seen_ids[p]) /\ appends[p][id] = 1

\* ---------------------------------------------------------------------------
\* C26: which ids a later run attempts again
\* ---------------------------------------------------------------------------

\* C26: a run fetches an id of its range exactly when the file held no record
\* for the id when the run started; a fetch that raised appends an error record
\* (which makes the id seen), a fetch answered with a non-200 status appends
\* nothing (so the id is fetched again by the next run that covers it).
C26_RetryRule ==
  /\ [](\A p \in Procs : \A id \in Visited(p) :
          (fetches[p][id] >= 1) <=> ~HasRecordFor(file0[p], id))
  /\ [][\A p \in Procs : \A id \in Ids :
          fetches'[p][id] = fetches[p][id] + 1
            => /\ RaisesException(last_res'[p][id])
                   => /\ Len(file') = Len(file) + 1
                      /\ SubSeq(file', 1, Len(file)) = file
                      /\ IsErrorRecord(file'[Len(file')].obj, id)
                      /\ HasRecordFor(file', id)
               /\ Non200(last_res'[p][id])
                   => file' = file /\ ~HasRecordFor(file', id)]_vars

\* a second run that skipped an id whose earlier fetch left an error record,
\* and fetched an id without a record; the answer was non-200, so the id is
\* still without a record
C26_Witness ==
  \E p \in Procs : \E a, b \in Ids :
     /\ runs >= 2 /\ pc[p] = "done"
     /\ a \in mids[p] /\ b \in mids[p]
     /\ \E i \in 1..Len(file0[p]) : IsErrorRecord(file0[p][i].obj, a)
     /\ fetches[p][a] = 0
     /\ ~HasRecordFor(file0[p], b) /\ fetches[p][b] = 1
     /\ Non200(last_res[p][b]) /\ ~HasRecordFor(file, b)

\* ---------------------------------------------------------------------------
\* C27: the three fields taken from the heading
\* ---------------------------------------------------------------------------

\* one call of scrape_meeting_metadata on a page answering 200 whose heading is
\* a week-day meeting, a Saturday meeting, a heading without a date, or a
\* heading whose date or time strptime rejects
InitHeadings ==
  /\ file = <<>>
  /\ InitRun
  /\ InitChunksIdle
  /\ LET Weekdays == {"Monday", "Tuesday", "Wednesday", "Thursday", "Friday"}
         Heading(text, name, day, date, time) ==
           [text |-> text, matched |-> day \in Weekdays,
            committee_name |-> name, meeting_date |-> date, meeting_time |-> time]
         Headings ==
           { CabinetHeading, NoHeading,
             Heading("Cabinet - Saturday, 6th January, 2024 10.00 am", "Cabinet", "Saturday", "2024-01-06", "10:00"),
             Heading("- Friday, 5th January, 2024 2.00 pm", "", "Friday", "2024-01-05", "14:00"),
             Heading("Cabinet - Monday, 31st February, 2024 10.00 am", "Cabinet", "Monday", "ValueError", "10:00"),
             Heading("Cabinet - Monday, 8th January, 2024 13.00 pm", "Cabinet", "Monday", "2024-01-08", "ValueError"),
             Heading("Planning Committee", "", "", "", "") }
     IN  page \in {[TitledPage(t) EXCEPT !.heading = h, !.agenda_items = its] :
                     t \in TitleAtoms, h \in Headings, its \in SeqsUpTo(ExtraItems, 1)}
  /\ scraped = None
  /\ InitRestIdle

SpecHeadings == InitHeadings /\ [][ScrapeOne]_vars

Null3(d) == {f \in {"committee_name", "meeting_date", "meeting_time"} : IsNone(d[f])}

\* C27: in every record without an error field committee_name, meeting_date
\* and meeting_time are all null or all non-null; a heading the regex does not
\* match (a Saturday meeting, say) gives a record, not an error, with the three
\* fields null and with the status and the agenda items of the page.
C27_AllOrNone ==
  ~IsNone(scraped) =>
    /\ "error" \notin DOMAIN scraped
         => /\ Cardinality(Null3(scraped)) \in {0, 3}
            /\ Cardinality(Null3(scraped)) = 3 <=> ~page.heading.matched
    /\ ~page.heading.matched
         => /\ \E mid \in Ids : IsMeetingRecord(scraped, mid)
            /\ Cardinality(Null3(scraped)) = 3
            /\ scraped.meeting_title = page.heading.text
            /\ scraped.meeting_status = meeting_status(page.title)
            /\ scraped.agenda_items = page.agenda_items

\* the record of a Saturday meeting: no committee, date or time, but a status
\* and an agenda item
C27_Witness ==
  /\ ~IsNone(scraped)
  /\ "error" \notin DOMAIN scraped
  /\ scraped.meeting_title = "Cabinet - Saturday, 6th January, 2024 10.00 am"
  /\ Cardinality(Null3(scraped)) = 3
  /\ scraped.meeting_status = <<"m","o","v","e","d">>
  /\ Len(scraped.agenda_items) = 1

\* ---------------------------------------------------------------------------
\* C28: damaged lines in the output file
\* ---------------------------------------------------------------------------

Damaged(line) == ~line.intact \/ "web_meeting_code" \notin DOMAIN line.obj

\* C28: a line that is not valid JSON or has no web_meeting_code does not stop
\* the load and gives no id to the seen set: the seen set of a run is the set
\* of codes of the undamaged lines, and an id whose only lines are damaged is
\* fetched by the run, and its record appended, as if the file had no line
\* for it.
C28_DamagedLines ==
  \A p \in Procs : pc[p] # "idle" =>
    /\ seen_ids[p] = {file0[p][i].obj.web_meeting_code :
                        i \in {j \in 1..Len(file0[p]) : ~Damaged(file0[p][j])}}
    /\ \A id \in Visited(p) :
         (\A i \in 1..Len(file0[p]) :
             Damaged(file0[p][i]) \/ file0[p][i].obj.web_meeting_code # str(id))
           => /\ fetches[p][id] = 1
              /\ appends[p][id] = IF Non200(last_res[p][id]) THEN 0 ELSE 1

\* a finished run on a file whose only line is the cut-off record of an id:
\* the id was fetched and its record appended after the damaged line
C28_Witness ==
  \E p \in Procs : \E id \in mids[p] :
     /\ pc[p] = "done"
     /\ Len(file0[p]) = 1 /\ ~file0[p][1].intact
     /\ file0[p][1].obj.web_meeting_code = str(id)
     /\ seen_ids[p] = {}
     /\ fetches[p][id] = 1 /\ appends[p][id] = 1
     /\ file[1] = file0[p][1] /\ IsMeetingRecord(file[Len(file)].obj, id)

\* ---------------------------------------------------------------------------
\* C29: the news store across runs
\* ---------------------------------------------------------------------------

StoredUrls(articles) == {articles[i].url : i \in 1..Len(articles)}

\* C29: a run of the news scraper keeps every stored article in its place: the
\* store before the run is a prefix of the store after it; a run whose links
\* are all stored already does not open the store file for writing, and a
\* run with a new link writes it once.
C29_StorePrefix ==
  [][news_runs' = news_runs + 1 =>
       LET links == Range(Take(collect_links(<<>>, section'), LinkLimit))
       IN  /\ IsPrefix(store, store')
           /\ links \subseteq StoredUrls(store)
                => store' = store /\ store_writes' = store_writes
           /\ ~(links \subseteq StoredUrls(store))
                => Len(store') > Len(store) /\ store_writes' = store_writes + 1]_vars

\* a second run that found one stored and one new article, and a store that
\* was written twice
C29_Witness ==
  /\ news_runs = 2 /\ store_writes = 2
  /\ prev_store # <<>> /\ IsPrefix(prev_store, store) /\ Len(store) > Len(prev_store)
  /\ \E i \in 1..Len(section) : BASE_URL \o section[i] \in StoredUrls(prev_store)

\* ---------------------------------------------------------------------------
\* C30: the registry after a build, from any registry file
\* ---------------------------------------------------------------------------
MaxPriorLines == 2

\* builds, one after the other, of a tree that does not change: any tree of
\* the model's folders, with or without summaries, and any registry file of
\* at most MaxPriorLines records, among them records with the same meeting_id
InitRebuild ==
  /\ file = <<>>
  /\ InitRun
  /\ InitStatusIdle
  /\ InitChunksIdle
  /\ InitNewsIdle /\ InitEmbedIdle /\ InitDocsIdle /\ InitBatchIdle
  /\ LET Summaries == {None} \cup {Some(text) : text \in SummaryTexts}
         Folders == {Folder(k, s) : k \in FolderKeys, s \in Summaries}
         OnePerKey(t) == \A e, g \in t :
                           (e.committee_name = g.committee_name /\ e.name = g.name) => e = g
         id1 == meeting_id_of(Date1, committee_id_of(Cab))
         id2 == meeting_id_of(Date2, committee_id_of(CabDash))
         Stored(id, name, date) ==
           [meeting_id |-> id, committee_id |-> committee_id_of(name),
            meeting_date |-> date,
            folder_path |-> folder_path_of([committee_name |-> name, name |-> date])]
         PriorRecords ==
           { Stored(id1, Cab, Date1),
             [k \in DOMAIN Stored(id1, CabDash, Date1) \cup {"summary"} |->
                IF k = "summary" THEN <<"o">> ELSE Stored(id1, CabDash, Date1)[k]],
             Stored(id2, CabDash, Date2) }
     IN  /\ tree \in {t \in SUBSET Folders : OnePerKey(t)}
         /\ registry \in SeqsUpTo(PriorRecords, MaxPriorLines)
  /\ prev_registry = <<>>
  /\ gone = {}
  /\ builds = 0

SpecRebuild == InitRebuild /\ [][BuildMetadata]_vars

=============================================================================
